---------------------------- MODULE Spec2Model ----------------------------
(***************************************************************************)
(* A model of src/app.py, the Discord export previewer.                    *)
(*                                                                         *)
(* Strings are sequences of one-character strings, so that escaping,       *)
(* line-break conversion and the mention pattern act on characters as the  *)
(* Python code does.  A JSON value is a record whose field k is its kind   *)
(* ("absent" is a key that the object does not hold).                      *)
(***************************************************************************)
EXTENDS Integers, Sequences, FiniteSets, TLC

VARIABLES
    pc,               \* position of main(): load, check, unwrap, sort, header,
                      \* render, done (returned), raised (uncaught exception)
    uploaded_zip,     \* TRUE when a ZIP was uploaded (main, line 339)
    base_dir,         \* the directory load_from_directory reads
    messages,         \* main's local `messages`
    metadata,         \* main's local `metadata`
    attachments_dir,  \* main's local `attachments_dir`
    order,            \* for each position of the sorted list, the index the
                      \* message had in the list handed to sorted()
    last_date_str,    \* main's local `last_date_str`
    idx,              \* number of messages the render loop has finished
    out,              \* the st.* calls made so far, in order
    report,           \* the st.info / st.error report or the uncaught exception
    body_pc,          \* position in lines 424-425: raw, escaped, highlighted
    content,          \* the `content` handed to escape_html
    safe_body         \* main's local `safe_body`

vars == <<pc, uploaded_zip, base_dir, messages, metadata, attachments_dir,
          order, last_date_str, idx, out, report, body_pc, content, safe_body>>

pipeVars == <<pc, uploaded_zip, base_dir, messages, metadata, attachments_dir,
              order, last_date_str, idx, out, report>>

bodyVars == <<body_pc, content, safe_body>>

---------------------------------------------------------------------------
(* Bounds of the model.                                                    *)

MaxLen == 4       \* longest free message text of SpecText
MaxMsgs == 3      \* longest message list of Spec
MaxDay == 2       \* calendar days 1..MaxDay (proleptic ordinals)

---------------------------------------------------------------------------
(* Python values.                                                          *)

\* A JSON scalar held by an object key: k is the kind, s the characters of a
\* string (or the decimal digits of a number).
V(kind, chars) == [k |-> kind, s |-> chars]

Absent == V("absent", <<>>)
Null == V("null", <<>>)
Num5 == V("num", <<"5">>)
Str(chars) == V("str", chars)

\* dict.get(key, default): the default only replaces a missing key.
Get(v, default) == IF v.k = "absent" THEN default ELSE v

\* Python truthiness of a scalar.
Truthy(v) ==
    \/ v.k = "str" /\ v.s # <<>>
    \/ v.k = "iso"
    \/ v.k = "num" /\ v.s # <<"0">>

\* str(v), as an f-string embeds a value.
PyStr(v) ==
    CASE v.k = "null" -> <<"N", "o", "n", "e">>
      [] v.k = "absent" -> <<>>
      [] OTHER -> v.s

\* The outcome of a call: a value or an uncaught exception.
Ok(v) == [raised |-> "", val |-> v]
Raise(exc) == [raised |-> exc, val |-> <<>>]

---------------------------------------------------------------------------
(* escape_html and highlight_mentions.                                     *)

RECURSIVE Replace(_, _, _)
\* str.replace(c, r) for a one-character c.
Replace(t, c, r) ==
    IF t = <<>> THEN <<>>
    ELSE (IF Head(t) = c THEN r ELSE <<Head(t)>>) \o Replace(Tail(t), c, r)

Amp == <<"&", "a", "m", "p", ";">>
Lt == <<"&", "l", "t", ";">>
Gt == <<"&", "g", "t", ";">>
Quot == <<"&", "q", "u", "o", "t", ";">>
Apos == <<"&", "#", "x", "2", "7", ";">>
Br == <<"<", "b", "r", ">">>

\* html.escape(s, quote=True): & first, then <, >, ", '.
html_escape(t) ==
    Replace(Replace(Replace(Replace(Replace(t, "&", Amp), "<", Lt), ">", Gt),
                    "\"", Quot), "'", Apos)

\* A mutant of escape_html: line breaks converted before escaping.
escape_html_BrFirst(text) ==
    CASE text.k = "null" -> Ok(<<>>)
      [] text.k = "str" -> Ok(html_escape(Replace(text.s, "\n", Br)))
      [] OTHER -> Raise("AttributeError")

\* escape_html(text): None gives "", a str is escaped and its line breaks
\* converted; html.escape of anything else has no .replace.
escape_html(text) ==
    CASE text.k = "null" -> Ok(<<>>)
      [] text.k = "str" -> Ok(Replace(html_escape(text.s), "\n", Br))
      [] OTHER -> Raise("AttributeError")

Digits == {"0", "1", "2", "3", "4", "5", "6", "7", "8", "9"}

SpanOpen ==
    <<"<", "s", "p", "a", "n", " ", "c", "l", "a", "s", "s", "=", "\"",
      "m", "e", "n", "t", "i", "o", "n", "\"", ">">>
SpanClose == <<"<", "/", "s", "p", "a", "n", ">">>

\* Whether p occurs in t starting at position i.
At(t, i, p) == i + Len(p) - 1 <= Len(t) /\ SubSeq(t, i, i + Len(p) - 1) = p

RECURSIVE DigitsEnd(_, _)
\* The position after the longest run of digits starting at i (\d+ is greedy).
DigitsEnd(t, i) ==
    IF i <= Len(t) /\ t[i] \in Digits THEN DigitsEnd(t, i + 1) ELSE i

\* The pattern &lt;@([!&]?\d+)&gt; tried at position i: the positions of
\* group 1 and of the end of the match, or no match.
Match(t, i) ==
    IF ~At(t, i, Lt \o <<"@">>) THEN [ok |-> FALSE, from |-> 0, to |-> 0, end |-> 0]
    ELSE LET g == i + 5
             d == IF g <= Len(t) /\ t[g] \in {"!", "&"} THEN g + 1 ELSE g
             e == DigitsEnd(t, d)
         IN  IF e > d /\ At(t, e, Gt)
             THEN [ok |-> TRUE, from |-> g, to |-> e - 1, end |-> e + 4]
             ELSE [ok |-> FALSE, from |-> 0, to |-> 0, end |-> 0]

\* repl(match): the span shows "@" and group 1.
repl(inner) == SpanOpen \o <<"@">> \o inner \o SpanClose

RECURSIVE Sub(_, _)
\* re.sub from position i on: leftmost matches, not overlapping.
Sub(t, i) ==
    IF i > Len(t) THEN <<>>
    ELSE LET m == Match(t, i)
         IN  IF m.ok THEN repl(SubSeq(t, m.from, m.to)) \o Sub(t, m.end)
             ELSE <<t[i]>> \o Sub(t, i + 1)

highlight_mentions(text_html) == Sub(text_html, 1)

---------------------------------------------------------------------------
(* parse_timestamp, format_timestamp and the sort of main.                 *)

\* A created_at string that datetime.fromisoformat accepts, given by what it
\* parses to: calendar day `day` of January 2024, minute `min` of that day,
\* and, when `aware`, a UTC offset of `off` minutes.
Iso(day, min, aware, off) ==
    [k |-> "iso", s |-> <<>>, day |-> day, min |-> min, aware |-> aware,
     off |-> off]

\* A datetime, or None.
Dt(day, min, aware, off) ==
    [none |-> FALSE, day |-> day, min |-> min, aware |-> aware, off |-> off]

None == [none |-> TRUE, day |-> 0, min |-> 0, aware |-> FALSE, off |-> 0]

\* datetime.min: naive, before every day of the model.
datetime_min == Dt(0, 0, FALSE, 0)

\* parse_timestamp(ts): None for a falsy ts and for whatever fromisoformat
\* rejects (a ValueError for other text, a TypeError for a number).
parse_timestamp(ts) ==
    IF ~Truthy(ts) THEN None
    ELSE IF ts.k = "iso" THEN Dt(ts.day, ts.min, ts.aware, ts.off)
    ELSE None

DigitChar == <<"0", "1", "2", "3", "4", "5", "6", "7", "8", "9">>

TwoDigits(n) == <<DigitChar[(n \div 10) + 1], DigitChar[(n % 10) + 1]>>

\* dt.strftime("%Y-%m-%d"): the date on the datetime's own clock.
DateStr(dt) == <<"2", "0", "2", "4", "-", "0", "1", "-">> \o TwoDigits(dt.day)

\* dt.strftime("%Y-%m-%d %H:%M")
DateTimeStr(dt) ==
    DateStr(dt) \o <<" ">> \o TwoDigits(dt.min \div 60) \o <<":">>
        \o TwoDigits(dt.min % 60)

\* format_timestamp(ts): the formatted instant, or `ts or ""` as it is.
format_timestamp(ts) ==
    LET dt == parse_timestamp(ts)
    IN  IF dt.none THEN (IF Truthy(ts) THEN PyStr(ts) ELSE <<>>)
        ELSE DateTimeStr(dt)

\* The instant an aware datetime denotes, in minutes; naive ones compare by
\* their own clock.
Instant(dt) == dt.day * 1440 + dt.min - dt.off

\* sort_key(msg): dt or datetime.min
sort_key(msg) ==
    LET dt == parse_timestamp(Get(msg.created_at, Str(<<>>)))
    IN  IF dt.none THEN datetime_min ELSE dt

RECURSIVE InsertionOrder(_, _)
\* The stable ascending order of the first n keys, as a sequence of indices:
\* index n goes after every index whose key is not greater.
InsertionOrder(keys, n) ==
    IF n = 0 THEN <<>>
    ELSE LET prev == InsertionOrder(keys, n - 1)
             k == Cardinality({i \in 1..Len(prev) :
                                  Instant(keys[prev[i]]) <= Instant(keys[n])})
         IN  SubSeq(prev, 1, k) \o <<n>> \o SubSeq(prev, k + 1, Len(prev))

\* sorted(messages, key=sort_key): comparing a naive key with an aware one
\* raises TypeError, and a sort of two or more keys of both kinds makes such a
\* comparison; otherwise the stable order.
sorted_by_key(items) ==
    LET keys == [i \in 1..Len(items) |-> sort_key(items[i])]
    IN  IF \E i, j \in 1..Len(items) : keys[i].aware # keys[j].aware
        THEN Raise("TypeError")
        ELSE Ok(InsertionOrder(keys, Len(items)))

---------------------------------------------------------------------------
(* render_attachments.                                                     *)

\* The attachments directory: absent (None), or the entries it holds.  An
\* entry has a name, its bytes, and whether open() succeeds on it.
NoDir == [present |-> FALSE, files |-> {}]
Dir(files) == [present |-> TRUE, files |-> files]
File(name, readable, data) == [name |-> name, readable |-> readable, data |-> data]

\* (attachments_dir / saved_as).exists(): the empty name is the directory.
Exists(dir, name) == name = <<>> \/ \E f \in dir.files : f.name = name

\* local_file.open("rb") and f.read(): the bytes, or an OSError.
ReadBytes(dir, name) ==
    IF name = <<>> THEN Raise("IsADirectoryError")
    ELSE LET f == CHOOSE f \in dir.files : f.name = name
         IN  IF f.readable THEN Ok(f.data) ELSE Raise("PermissionError")

B64Chars ==
    <<"A", "B", "C", "D", "E", "F", "G", "H", "I", "J", "K", "L", "M", "N", "O", "P",
      "Q", "R", "S", "T", "U", "V", "W", "X", "Y", "Z", "a", "b", "c", "d", "e", "f",
      "g", "h", "i", "j", "k", "l", "m", "n", "o", "p", "q", "r", "s", "t", "u", "v",
      "w", "x", "y", "z", "0", "1", "2", "3", "4", "5", "6", "7", "8", "9", "+", "/">>

RECURSIVE b64encode(_)
\* base64.b64encode(data).decode("ascii")
b64encode(data) ==
    IF Len(data) = 0 THEN <<>>
    ELSE IF Len(data) = 1
    THEN <<B64Chars[(data[1] \div 4) + 1], B64Chars[(data[1] % 4) * 16 + 1],
           "=", "=">>
    ELSE IF Len(data) = 2
    THEN <<B64Chars[(data[1] \div 4) + 1],
           B64Chars[(data[1] % 4) * 16 + (data[2] \div 16) + 1],
           B64Chars[(data[2] % 16) * 4 + 1], "=">>
    ELSE <<B64Chars[(data[1] \div 4) + 1],
           B64Chars[(data[1] % 4) * 16 + (data[2] \div 16) + 1],
           B64Chars[(data[2] % 16) * 4 + (data[3] \div 64) + 1],
           B64Chars[(data[3] % 64) + 1]>>
         \o b64encode(SubSeq(data, 4, Len(data)))

ImagePrefix == <<"i", "m", "a", "g", "e", "/">>

\* f"data:{mime};base64,{b64}"
DataUri(mime, b64) ==
    <<"d", "a", "t", "a", ":">> \o mime
        \o <<";", "b", "a", "s", "e", "6", "4", ",">> \o b64

\* One entry of html_parts: which of the four templates, and the text put in
\* its slots (an unused slot is empty).
Part(kind, href, src, alt, label) ==
    [kind |-> kind, href |-> href, src |-> src, alt |-> alt, label |-> label]

\* Lines 126-138: src of an image; the data URI of the local file, else the
\* url when the file is missing or unreadable, else "".
ResolveSource(local_file, dir, saved_as, url, content_type) ==
    LET src == IF local_file /\ ReadBytes(dir, saved_as.s).raised = ""
               THEN DataUri(content_type.s, b64encode(ReadBytes(dir, saved_as.s).val))
               ELSE <<>>
    IN  IF src = <<>> /\ Truthy(url) THEN PyStr(url) ELSE src

\* A mutant of RenderOther: a video with a source is given a player.
RenderOther_Video(filename, url, content_type) ==
    IF At(content_type.s, 1, <<"v", "i", "d", "e", "o", "/">>) /\ Truthy(url)
    THEN Part("video", <<>>, PyStr(url), <<>>, PyStr(filename))
    ELSE IF Truthy(url)
    THEN Part("link", PyStr(url), <<>>, <<>>, PyStr(filename))
    ELSE Part("label", <<>>, <<>>, <<>>, PyStr(filename))

\* Lines 163-180: an attachment that is not an image is a link to its url,
\* or its file name alone.
RenderOther(filename, url, content_type) ==
    IF Truthy(url)
    THEN Part("link", PyStr(url), <<>>, <<>>, PyStr(filename))
    ELSE Part("label", <<>>, <<>>, <<>>, PyStr(filename))

\* Lines 113-180, one turn of the loop.
RenderAttachment(att, dir) ==
    LET filename == Get(att.filename, Str(<<"a", "t", "t", "a", "c", "h", "m", "e", "n", "t">>))
        saved == Get(att.saved_as, Null)
        saved_as == IF Truthy(saved) THEN saved ELSE filename
        url == Get(att.url, Str(<<>>))
        content_type == Get(att.content_type, Str(<<>>))
        local_file == dir.present /\ Exists(dir, saved_as.s)
    IN  IF dir.present /\ saved_as.k # "str" THEN Raise("TypeError")
        ELSE IF content_type.k # "str" THEN Raise("AttributeError")
        ELSE IF At(content_type.s, 1, ImagePrefix)
        THEN LET src == ResolveSource(local_file, dir, saved_as, url, content_type)
             IN  IF src # <<>>
                 THEN Ok(Part("image", IF Truthy(url) THEN PyStr(url) ELSE src,
                              src, PyStr(filename), PyStr(filename)))
                 ELSE Ok(Part("image_label", <<>>, <<>>, <<>>, PyStr(filename)))
        ELSE Ok(RenderOther(filename, url, content_type))

RECURSIVE RenderAll(_, _)
\* The for loop of render_attachments: the first exception ends it.
RenderAll(items, dir) ==
    IF items = <<>> THEN Ok(<<>>)
    ELSE LET first == RenderAttachment(Head(items), dir)
             rest == RenderAll(Tail(items), dir)
         IN  IF first.raised # "" THEN first
             ELSE IF rest.raised # "" THEN rest
             ELSE Ok(<<first.val>> \o rest.val)

\* The `attachments` value of a message: a missing key, null, a number, or a
\* list of attachment objects.
Atts(kind, items) == [k |-> kind, items |-> items]

\* render_attachments(attachments, attachments_dir)
render_attachments(attachments, dir) ==
    IF attachments.k = "null" \/ (attachments.k = "list" /\ attachments.items = <<>>)
    THEN Ok(<<>>)
    ELSE IF attachments.k = "list" THEN RenderAll(attachments.items, dir)
    ELSE Raise("TypeError")

---------------------------------------------------------------------------
(* The bundle on disk and load_from_directory.                             *)

\* A parsed JSON document: a list of messages, an object (its keys, and for
\* a "messages" key the kind and items of its value), null, a number or a
\* string.
Doc(kind, keys, inner, items, chars) ==
    [k |-> kind, keys |-> keys, inner |-> inner, items |-> items, s |-> chars]

JList(items) == Doc("list", {}, "", items, <<>>)
JEnvelope(items) == Doc("dict", {"messages"}, "list", items, <<>>)
JEnvelopeNull == Doc("dict", {"messages"}, "null", <<>>, <<>>)
JObject(keys) == Doc("dict", keys, "", <<>>, <<>>)
JNull == Doc("null", {}, "", <<>>, <<>>)
JNum(digits) == Doc("num", {}, "", <<>>, digits)
JStr(chars) == Doc("str", {}, "", <<>>, chars)

\* `not messages`
Falsy(doc) ==
    CASE doc.k = "list" -> doc.items = <<>>
      [] doc.k = "dict" -> doc.keys = {}
      [] doc.k = "null" -> TRUE
      [] doc.k = "num" -> doc.s = <<"0">>
      [] doc.k = "str" -> doc.s = <<>>

\* messages["messages"]
Unwrapped(doc) ==
    IF doc.inner = "list" THEN JList(doc.items) ELSE JNull

\* metadata.json parsed: None, or an object with some of the keys main reads.
Meta(kind, guild_name, server_name, channel_name, others) ==
    [k |-> kind, guild_name |-> guild_name, server_name |-> server_name,
     channel_name |-> channel_name, others |-> others]

NoMeta == Meta("none", Absent, Absent, Absent, FALSE)

\* A directory: messages.json and metadata.json are each missing, malformed
\* or hold a document; attachments is the attachments/ directory.
BaseDir(messages_json, doc, metadata_json, meta, attachments) ==
    [messages_json |-> messages_json, doc |-> doc,
     metadata_json |-> metadata_json, meta |-> meta, attachments |-> attachments]

\* load_from_directory(base_dir): (messages, metadata, attachments_dir), or
\* the JSONDecodeError of json.load on messages.json.
load_from_directory(dir) ==
    IF dir.messages_json = "missing" THEN Ok(<<JList(<<>>), NoMeta, NoDir>>)
    ELSE IF dir.messages_json = "malformed" THEN Raise("JSONDecodeError")
    ELSE Ok(<<dir.doc,
              IF dir.metadata_json = "ok" THEN dir.meta ELSE NoMeta,
              dir.attachments>>)

---------------------------------------------------------------------------
(* main.                                                                   *)

\* What the user is told: nothing yet, an st.info or st.error text, or the
\* exception that ended main, with the step that raised it.
Report(kind, what, at) == [kind |-> kind, what |-> what, at |-> at]

NoReport == Report("none", "", "")

\* Lines 360-366: the report of `not messages`.
NoMessagesReport(uploaded) ==
    IF uploaded THEN Report("error", "Could not find messages.json", "check")
    ELSE Report("info", "Upload a ZIP file", "check")

NotRecognized == Report("error", "JSON format not recognized", "unwrap")

\* The fragment of one message: the text put in each slot of message_html.
Fragment(avatar, author, timestamp, body, attachments) ==
    [avatar |-> avatar, author |-> author, timestamp |-> timestamp,
     body |-> body, attachments |-> attachments]

NoFragment == Fragment(<<>>, <<>>, <<>>, <<>>, <<>>)

\* One st.* call: its kind, and its text or fragment.
Call(kind, text, frag) == [call |-> kind, text |-> text, frag |-> frag]

\* str.upper() on the letters the model's authors start with.
Upper(c) ==
    CASE c = "a" -> "A"
      [] c = "b" -> "B"
      [] OTHER -> c

\* A message object of messages.json.
Msg(author, text, created_at, attachments) ==
    [author |-> author, content |-> text, created_at |-> created_at,
     attachments |-> attachments]

\* Lines 406-443 for one message: the fragment, or the first exception.
RenderMessage(msg, dir) ==
    LET author == Get(msg.author, Str(<<"U", "n", "k", "n", "o", "w", "n">>))
        text == Get(msg.content, Str(<<>>))
        created_at == Get(msg.created_at, Str(<<>>))
        attachments == Get(msg.attachments, Atts("list", <<>>))
        body == escape_html(text)
        attachments_html == render_attachments(attachments, dir)
    IN  IF Truthy(author) /\ author.k # "str" THEN Raise("TypeError")
        ELSE IF body.raised # "" THEN body
        ELSE IF attachments_html.raised # "" THEN attachments_html
        ELSE Ok(Fragment(IF Truthy(author) THEN <<Upper(author.s[1])>> ELSE <<"?">>,
                         PyStr(author),
                         format_timestamp(created_at),
                         highlight_mentions(body.val),
                         attachments_html.val))

\* Lines 411-412: cur_date_str, None (Null) without a parseable timestamp.
CurDateStr(msg) ==
    LET dt == parse_timestamp(Get(msg.created_at, Str(<<>>)))
    IN  IF dt.none THEN Null ELSE Str(DateStr(dt))

\* line 357
Load ==
    /\ pc = "load"
    /\ LET r == load_from_directory(base_dir)
       IN  IF r.raised # ""
           THEN /\ pc' = "raised"
                /\ report' = Report("exception", r.raised, "load")
                /\ UNCHANGED <<messages, metadata, attachments_dir>>
           ELSE /\ pc' = "check"
                /\ messages' = r.val[1]
                /\ metadata' = r.val[2]
                /\ attachments_dir' = r.val[3]
                /\ UNCHANGED report
    /\ UNCHANGED <<uploaded_zip, base_dir, order, last_date_str, idx, out, bodyVars>>

\* lines 359-367
Check ==
    /\ pc = "check"
    /\ IF Falsy(messages)
       THEN /\ pc' = "done"
            /\ report' = NoMessagesReport(uploaded_zip)
            /\ out' = Append(out, Call(report'.kind, <<>>, NoFragment))
       ELSE /\ pc' = "unwrap"
            /\ UNCHANGED <<report, out>>
    /\ UNCHANGED <<uploaded_zip, base_dir, messages, metadata, attachments_dir,
                   order, last_date_str, idx, bodyVars>>

\* lines 370-375
Unwrap ==
    /\ pc = "unwrap"
    /\ IF messages.k # "dict"
       THEN /\ pc' = "sort"
            /\ UNCHANGED <<messages, report, out>>
       ELSE IF "messages" \in messages.keys
       THEN /\ pc' = "sort"
            /\ messages' = Unwrapped(messages)
            /\ UNCHANGED <<report, out>>
       ELSE /\ pc' = "done"
            /\ report' = NotRecognized
            /\ out' = Append(out, Call("error", <<>>, NoFragment))
            /\ UNCHANGED messages
    /\ UNCHANGED <<uploaded_zip, base_dir, metadata, attachments_dir, order,
                   last_date_str, idx, bodyVars>>

\* lines 378-382: sorted() of a list of message objects; None and a number
\* are not iterable, and the characters of a string have no .get.
Sort ==
    /\ pc = "sort"
    /\ LET r == CASE messages.k = "list" -> sorted_by_key(messages.items)
                  [] messages.k = "str" -> Raise("AttributeError")
                  [] OTHER -> Raise("TypeError")
       IN  IF r.raised # ""
           THEN /\ pc' = "raised"
                /\ report' = Report("exception", r.raised, "sort")
                /\ UNCHANGED <<messages, order>>
           ELSE /\ pc' = "header"
                /\ order' = r.val
                /\ messages' = JList([i \in 1..Len(r.val) |-> messages.items[r.val[i]]])
                /\ UNCHANGED report
    /\ UNCHANGED <<uploaded_zip, base_dir, metadata, attachments_dir,
                   last_date_str, idx, out, bodyVars>>

\* lines 385-403: the metadata block, the "Messages (n)" subheader and the
\* opening of the container.
Header ==
    /\ pc = "header"
    /\ LET guild_name == IF Truthy(metadata.guild_name) THEN metadata.guild_name
                         ELSE metadata.server_name
           channel_name == metadata.channel_name
           shown ==
               IF metadata.k = "none"
                  \/ (metadata.guild_name.k = "absent" /\ metadata.server_name.k = "absent"
                      /\ metadata.channel_name.k = "absent" /\ ~metadata.others)
               THEN <<>>
               ELSE <<Call("subheader", <<"M", "e", "t", "a", "d", "a", "t", "a">>, NoFragment)>>
                    \o (IF Truthy(guild_name) \/ Truthy(channel_name)
                        THEN (IF Truthy(guild_name)
                              THEN <<Call("write", PyStr(guild_name), NoFragment)>>
                              ELSE <<>>)
                             \o (IF Truthy(channel_name)
                                 THEN <<Call("write", PyStr(channel_name), NoFragment)>>
                                 ELSE <<>>)
                        ELSE <<Call("json", <<>>, NoFragment)>>)
       IN  out' = out \o shown
                  \o <<Call("subheader", TwoDigits(Len(messages.items)), NoFragment),
                       Call("open", <<>>, NoFragment)>>
    /\ last_date_str' = Null
    /\ idx' = 0
    /\ pc' = "render"
    /\ UNCHANGED <<uploaded_zip, base_dir, messages, metadata, attachments_dir,
                   order, report, bodyVars>>

\* lines 405-445, one turn of the loop: the day separator, then the message.
RenderMsg ==
    /\ pc = "render"
    /\ idx < Len(messages.items)
    /\ LET msg == messages.items[idx + 1]
           cur_date_str == CurDateStr(msg)
           separator == cur_date_str.k = "str" /\ cur_date_str # last_date_str
           marked == IF separator
                     THEN Append(out, Call("separator", cur_date_str.s, NoFragment))
                     ELSE out
           r == RenderMessage(msg, attachments_dir)
       IN  /\ last_date_str' = IF separator THEN cur_date_str ELSE last_date_str
           /\ IF r.raised # ""
              THEN /\ pc' = "raised"
                   /\ report' = Report("exception", r.raised, "render")
                   /\ out' = marked
                   /\ UNCHANGED idx
              ELSE /\ out' = Append(marked, Call("message", <<>>, r.val))
                   /\ idx' = idx + 1
                   /\ UNCHANGED <<pc, report>>
    /\ UNCHANGED <<uploaded_zip, base_dir, messages, metadata, attachments_dir,
                   order, bodyVars>>

\* line 447
Finish ==
    /\ pc = "render"
    /\ idx = Len(messages.items)
    /\ out' = Append(out, Call("close", <<>>, NoFragment))
    /\ pc' = "done"
    /\ UNCHANGED <<uploaded_zip, base_dir, messages, metadata, attachments_dir,
                   order, last_date_str, idx, report, bodyVars>>

Next == Load \/ Check \/ Unwrap \/ Sort \/ Header \/ RenderMsg \/ Finish

---------------------------------------------------------------------------
(* The bundles the model is run on.                                        *)

Days == 1..MaxDay

\* Minutes of the day: 00:00 and 23:30.
Mins == {0, 1410}

\* UTC offsets in minutes: +00:00 and +02:00.
Offsets == {0, 120}

\* created_at values: a missing key, null, a number, text that is no ISO
\* timestamp, naive timestamps and timestamps with a UTC offset.
Timestamps ==
    {Absent, Null, Num5, Str(<<"<", "i", ">">>)}
        \cup {Iso(d, m, FALSE, 0) : d \in Days, m \in Mins}
        \cup {Iso(d, m, TRUE, o) : d \in Days, m \in Mins, o \in Offsets}

NoAtts == Atts("absent", <<>>)

\* Messages that differ in created_at alone.
TimedMsgs == {Msg(Str(<<"a", "l">>), Str(<<"h", "i">>), t, NoAtts) : t \in Timestamps}

Att(filename, saved_as, url, content_type) ==
    [filename |-> filename, saved_as |-> saved_as, url |-> url,
     content_type |-> content_type]

ImagePng == Str(<<"i", "m", "a", "g", "e", "/", "p", "n", "g">>)
ImageUpper == Str(<<"I", "M", "A", "G", "E", "/", "P", "N", "G">>)
VideoMp4 == Str(<<"v", "i", "d", "e", "o", "/", "m", "p", "4">>)
VideoUpper == Str(<<"V", "i", "d", "e", "o", "/", "M", "P", "4">>)
TextPlain == Str(<<"t", "e", "x", "t", "/", "p", "l", "a", "i", "n">>)

Url == Str(<<"h", "t", "t", "p", ":", "/", "/", "u">>)

\* Messages with one field missing, null, of the wrong type, or holding
\* markup-significant text; the created_at is the same throughout.
DefectMsgs ==
    LET ts == Iso(1, 0, FALSE, 0)
        ok == Str(<<"a", "l">>)
        hi == Str(<<"h", "i">>)
        atts == {Att(Str(<<"a">>), Absent, Url, ImagePng),
                 Att(Str(<<"a">>), Absent, Absent, ImagePng),
                 Att(Str(<<"a">>), Absent, Url, TextPlain),
                 Att(Str(<<"a">>), Absent, Url, Null),
                 Att(Null, Absent, Url, ImagePng),
                 Att(Str(<<"<", "b", ">">>), Null, Str(<<"\"", ">">>), Absent)}
    IN  {Msg(a, hi, ts, NoAtts) : a \in {Absent, Null, Num5, Str(<<>>), Str(<<"<", "b", ">">>)}}
        \cup {Msg(ok, c, ts, NoAtts) : c \in {Absent, Null, Num5, Str(<<"<", "@", "1", ">", "\n">>)}}
        \cup {Msg(ok, hi, ts, a) : a \in {Atts("null", <<>>), Atts("num", <<>>), Atts("list", <<>>)}}
        \cup {Msg(ok, hi, ts, Atts("list", <<a>>)) : a \in atts}

SeqsUpTo(S, n) == UNION {[1..k -> S] : k \in 0..n}

FileA == File(<<"a">>, TRUE, <<77, 97, 110>>)

Metas ==
    {Meta("dict", Str(<<"G">>), Absent, Str(<<"c">>), FALSE),
     Meta("dict", Absent, Str(<<"S">>), Absent, TRUE),
     Meta("dict", Absent, Absent, Absent, TRUE),
     Meta("dict", Absent, Absent, Absent, FALSE)}

\* Documents of every shape, on their own or around one message, in every
\* surrounding: uploaded or not, with and without metadata and attachments/.
ShapeDirs ==
    LET m == Msg(Str(<<"a", "l">>), Str(<<"h", "i">>), Iso(1, 0, FALSE, 0), NoAtts)
        docs == {JList(<<>>), JList(<<m>>), JEnvelope(<<>>), JEnvelope(<<m>>),
                 JEnvelopeNull, JObject({}), JObject({"data"}), JNull,
                 JNum(<<"0">>), JNum(<<"5">>), JStr(<<>>), JStr(<<"a">>)}
        metas == {<<"missing", NoMeta>>, <<"malformed", NoMeta>>}
                     \cup {<<"ok", x>> : x \in Metas}
    IN  {BaseDir("ok", d, x[1], x[2], a) :
             d \in docs, x \in metas, a \in {NoDir, Dir({FileA})}}
        \cup {BaseDir(f, JNull, x[1], x[2], a) :
                  f \in {"missing", "malformed"}, x \in metas, a \in {NoDir, Dir({FileA})}}

\* Lists of messages that differ in their timestamps.
TimedDirs ==
    {BaseDir("ok", JList(l), "missing", NoMeta, NoDir) : l \in SeqsUpTo(TimedMsgs, MaxMsgs)}

\* Pairs of messages, some of them defective, bare or in an envelope.
DefectDirs ==
    {BaseDir("ok", d, "missing", NoMeta, a) :
         d \in {JList(l) : l \in SeqsUpTo(TimedMsgs \cup DefectMsgs, 2)}
                   \cup {JEnvelope(<<x>>) : x \in DefectMsgs},
         a \in {NoDir, Dir({FileA})}}

InitMain(dirs) ==
    /\ pc = "load"
    /\ uploaded_zip \in BOOLEAN
    /\ base_dir \in dirs
    /\ messages = JList(<<>>)
    /\ metadata = NoMeta
    /\ attachments_dir = NoDir
    /\ order = <<>>
    /\ last_date_str = Null
    /\ idx = 0
    /\ out = <<>>
    /\ report = NoReport
    /\ body_pc = "idle"
    /\ content = Null
    /\ safe_body = <<>>

Init == InitMain(ShapeDirs \cup TimedDirs \cup DefectDirs)

Spec == Init /\ [][Next]_vars

\* One message with one attachment, over every combination of its fields
\* and of the attachments directory.
AttachDirs ==
    LET names == {Absent, Null, Num5, Str(<<>>), Str(<<"a">>), Str(<<"<">>)}
        saved == {Absent, Null, Str(<<>>), Str(<<"a">>), Str(<<"b">>)}
        urls == {Absent, Null, Str(<<>>), Url, Num5}
        types == {Absent, Null, Str(<<>>), ImagePng, ImageUpper, VideoMp4, VideoUpper,
                  TextPlain}
        dirs == {NoDir, Dir({}), Dir({FileA}), Dir({File(<<"a">>, FALSE, <<>>)}),
                 Dir({File(<<"b">>, TRUE, <<77>>)})}
    IN  {BaseDir("ok",
                 JList(<<Msg(Str(<<"a", "l">>), Str(<<"h", "i">>), Iso(1, 0, FALSE, 0),
                             Atts("list", <<Att(f, s, u, t)>>))>>),
                 "missing", NoMeta, d) :
             f \in names, s \in saved, u \in urls, t \in types, d \in dirs}

InitAttach == InitMain(AttachDirs \cup ShapeDirs)

SpecAttach == InitAttach /\ [][Next]_vars

---------------------------------------------------------------------------
(* Lines 424-425 of main on their own: the body text of one message.       *)

Alphabet == {"&", "<", ">", "\"", "'", "\n", "@", "!", "1"}

Texts == UNION {[1..n -> Alphabet] : n \in 0..MaxLen}

\* Texts that hold a mention token <@N>, <@!N> or <@&N>, alone or between
\* other characters.
MentionTexts ==
    LET pad == {<<>>} \cup {<<c>> : c \in Alphabet}
        ids == {<<"1">>, <<"1", "1">>}
    IN  {a \o <<"<", "@">> \o m \o n \o <<">">> \o b :
             a \in pad, b \in pad, m \in {<<>>, <<"!">>, <<"&">>}, n \in ids}

InitText ==
    /\ body_pc = "raw"
    /\ content \in {Null, Num5} \cup {Str(t) : t \in Texts \cup MentionTexts}
    /\ safe_body = <<>>
    /\ pc = "idle" /\ uploaded_zip = FALSE /\ messages = JList(<<>>)
    /\ base_dir = BaseDir("missing", JNull, "missing", NoMeta, NoDir)
    /\ metadata = NoMeta /\ attachments_dir = NoDir /\ order = <<>>
    /\ last_date_str = Null /\ idx = 0 /\ out = <<>> /\ report = NoReport

\* line 424: safe_body = escape_html(content)
EscapeHtml ==
    /\ body_pc = "raw"
    /\ safe_body' = escape_html(content).val
    /\ body_pc' = IF escape_html(content).raised = "" THEN "escaped" ELSE "raised"
    /\ UNCHANGED <<content, pipeVars>>

\* line 425: safe_body = highlight_mentions(safe_body)
HighlightMentions ==
    /\ body_pc = "escaped"
    /\ safe_body' = highlight_mentions(safe_body)
    /\ body_pc' = "highlighted"
    /\ UNCHANGED <<content, pipeVars>>

NextText == EscapeHtml \/ HighlightMentions

SpecText == InitText /\ [][NextText]_vars

---------------------------------------------------------------------------
(* Properties of the body text.                                            *)

Special == {"&", "<", ">", "\"", "'"}

Bad == <<"#unescaped">>

RECURSIVE Decode(_, _)
\* Reads markup back into the text it stands for: a line-break marker is a
\* line break, an entity its character, a mention span its token.  A
\* markup-significant character that is part of none of these is Bad.
Decode(t, i) ==
    IF i > Len(t) THEN <<>>
    ELSE IF At(t, i, Br) THEN <<"\n">> \o Decode(t, i + Len(Br))
    ELSE IF At(t, i, Amp) THEN <<"&">> \o Decode(t, i + Len(Amp))
    ELSE IF At(t, i, Lt) THEN <<"<">> \o Decode(t, i + Len(Lt))
    ELSE IF At(t, i, Gt) THEN <<">">> \o Decode(t, i + Len(Gt))
    ELSE IF At(t, i, Quot) THEN <<"\"">> \o Decode(t, i + Len(Quot))
    ELSE IF At(t, i, Apos) THEN <<"'">> \o Decode(t, i + Len(Apos))
    ELSE IF At(t, i, SpanOpen \o <<"@">>)
    THEN LET g == i + Len(SpanOpen) + 1
             d == IF g <= Len(t) /\ t[g] = "!" THEN g + 1 ELSE g
             e == DigitsEnd(t, d)
         IN  IF e > d /\ At(t, e, SpanClose)
             THEN <<"<", "@">> \o SubSeq(t, g, e - 1) \o <<">">>
                  \o Decode(t, e + Len(SpanClose))
             ELSE Bad
    ELSE IF t[i] \in Special THEN Bad
    ELSE <<t[i]>> \o Decode(t, i + 1)

Contains(t, p) == \E i \in 1..Len(t) : At(t, i, p)

Ids == {[j \in 1..n |-> "1"] : n \in 1..2}

Modifiers == {<<>>, <<"!">>, <<"&">>}

\* C9: the sanitized body stands for exactly the input text, with every
\* markup-significant character of the input escaped and every line break
\* turned into a marker after escaping; None gives the empty body; the
\* mention highlighter runs on the escaped text and adds only its own spans.
C9_SanitizeEscapes ==
    body_pc \in {"escaped", "highlighted"} =>
        /\ content.k = "null" => safe_body = <<>>
        /\ content.k = "str" => Decode(safe_body, 1) = content.s
        /\ body_pc = "escaped" => ~Contains(safe_body, SpanOpen)

C9_Witness ==
    /\ body_pc = "escaped"
    /\ content = Str(<<"<", "\n", "&", "'">>)
    /\ safe_body = Lt \o Br \o Amp \o Apos

\* C8: every mention token <@N>, <@!N> or <@&N> of the text is rendered as a
\* highlighted span that shows exactly @N.
C8_MentionShowsId ==
    body_pc = "highlighted" /\ content.k = "str" =>
        \A n \in Ids : \A m \in Modifiers :
            Contains(content.s, <<"<", "@">> \o m \o n \o <<">">>)
                => Contains(safe_body, SpanOpen \o <<"@">> \o n \o SpanClose)

---------------------------------------------------------------------------
(* Properties of main.                                                     *)

\* The list handed to sorted(): the document's own items or its envelope's.
Original == base_dir.doc.items

Parsed(msg) == parse_timestamp(Get(msg.created_at, Str(<<>>)))

\* C1: sorting a list of messages, with or without UTC offsets, never raises
\* and gives a permutation of the list with the messages without a parseable
\* timestamp first, the others in ascending order of their instants, and
\* messages of equal rank in their original order.
C1_SortTotalStable ==
    /\ ~(pc = "raised" /\ report.at = "sort" /\ messages.k = "list")
    /\ pc = "header" =>
           LET n == Len(Original)
               item(i) == messages.items[i]
           IN  /\ Len(order) = n /\ Len(messages.items) = n
               /\ {order[i] : i \in 1..n} = 1..n
               /\ \A i \in 1..n : item(i) = Original[order[i]]
               /\ \A i, j \in 1..n :
                      i < j =>
                          /\ ~(Parsed(item(j)).none /\ ~Parsed(item(i)).none)
                          /\ (~Parsed(item(i)).none /\ ~Parsed(item(j)).none)
                                 => Instant(Parsed(item(i))) <= Instant(Parsed(item(j)))
                          /\ (Parsed(item(i)).none /\ Parsed(item(j)).none)
                                 => order[i] < order[j]
                          /\ (~Parsed(item(i)).none /\ ~Parsed(item(j)).none
                              /\ Instant(Parsed(item(i))) = Instant(Parsed(item(j))))
                                 => order[i] < order[j]

MissingDir == BaseDir("missing", JNull, "missing", NoMeta, NoDir)

\* C2: a directory whose messages.json holds an empty message list gives
\* neither the load result nor the report of a directory without
\* messages.json.
C2_MissingDistinctFromEmpty ==
    (base_dir.messages_json = "ok" /\ base_dir.doc \in {JList(<<>>), JEnvelope(<<>>)}) =>
        /\ pc = "check" =>
               <<messages, metadata, attachments_dir>> # load_from_directory(MissingDir).val
        /\ pc = "done" => report # NoMessagesReport(uploaded_zip)

IsRenderCall(e) == e.call \in {"separator", "message"}

\* The separators and message fragments emitted, in order.
Rendered == SelectSeq(out, IsRenderCall)

\* The position in Rendered of the fragment of the k-th message.
FragmentPos(k) ==
    CHOOSE p \in 1..Len(Rendered) :
        /\ Rendered[p].call = "message"
        /\ Cardinality({q \in 1..p : Rendered[q].call = "message"}) = k

SeparatorBefore(k) ==
    FragmentPos(k) > 1 /\ Rendered[FragmentPos(k) - 1].call = "separator"

RenderingFinished == pc = "done" /\ report = NoReport

\* The first half of C3: a separator stands immediately before a message
\* exactly when the message has a date and either no earlier message has one
\* or the previous message's date is another.
SeparatorsAtDateChanges ==
    RenderingFinished =>
        \A k \in 1..Len(messages.items) :
            LET date(i) == CurDateStr(messages.items[i])
            IN  SeparatorBefore(k) <=>
                    /\ date(k).k = "str"
                    /\ \/ \A j \in 1..(k - 1) : date(j).k # "str"
                       \/ k > 1 /\ date(k) # date(k - 1)

\* The second half of C3: each calendar day of the bundle has exactly one
\* separator, before the first message of that day, and the messages of a
\* day are in ascending order of time.
OneSeparatorPerDay ==
    RenderingFinished =>
        LET n == Len(messages.items)
            date(i) == CurDateStr(messages.items[i])
        IN  /\ \A k \in 1..n :
                   date(k).k = "str" =>
                       LET seps == {p \in 1..Len(Rendered) :
                                       /\ Rendered[p].call = "separator"
                                       /\ Rendered[p].text = date(k).s}
                           first == CHOOSE j \in 1..n :
                                        /\ date(j) = date(k)
                                        /\ \A i \in 1..(j - 1) : date(i) # date(k)
                       IN  /\ Cardinality(seps) = 1
                           /\ \A p \in seps : p + 1 = FragmentPos(first)
            /\ \A i, j \in 1..n :
                   (i < j /\ date(i).k = "str" /\ date(i) = date(j)) =>
                       Instant(Parsed(messages.items[i])) <= Instant(Parsed(messages.items[j]))

\* C3: separators stand exactly at the changes of date, so that each
\* calendar day has one separator, before its first message.
C3_SeparatorPerDay == SeparatorsAtDateChanges /\ OneSeparatorPerDay

\* C4: no defect of a message or of an attachment ends the rendering: the
\* loop never raises, and once main is over every message has its fragment.
C4_RenderNeverFails ==
    /\ ~(pc = "raised" /\ report.at = "render")
    /\ (pc \in {"done", "raised"} /\ report.at \notin {"load", "check", "unwrap", "sort"}) =>
           Cardinality({p \in 1..Len(out) : out[p].call = "message"}) = Len(messages.items)

Unrecognized(doc) == doc.k # "list" /\ ~(doc.k = "dict" /\ "messages" \in doc.keys)

\* C5: a document that is neither an array nor an object with a `messages`
\* key ends main before any rendering, with a failure that is neither the
\* report of a missing messages.json nor the error of malformed JSON.
C5_UnrecognizedShapeDistinct ==
    (base_dir.messages_json = "ok" /\ Unrecognized(base_dir.doc)) =>
        /\ pc \notin {"header", "render"}
        /\ \A p \in 1..Len(out) : ~IsRenderCall(out[p])
        /\ pc \in {"done", "raised"} =>
               /\ report.kind \in {"error", "exception"}
               /\ report # NoMessagesReport(uploaded_zip)
               /\ report.what # "JSONDecodeError"

\* Whether every markup-significant character of t is part of an entity (or
\* of a line-break marker or mention span, as the sanitizer writes them).
Escaped(t) ==
    LET d == Decode(t, 1)
    IN  d = <<>> \/ d[Len(d)] # Bad[1]

\* C10: in every message fragment the author, the timestamp, the body and
\* each attachment's url, source and file name are embedded escaped.
C10_FragmentEscaped ==
    \A p \in 1..Len(out) :
        out[p].call = "message" =>
            LET f == out[p].frag
            IN  /\ Escaped(f.author) /\ Escaped(f.avatar)
                /\ Escaped(f.timestamp) /\ Escaped(f.body)
                /\ \A a \in 1..Len(f.attachments) :
                       /\ Escaped(f.attachments[a].href)
                       /\ Escaped(f.attachments[a].src)
                       /\ Escaped(f.attachments[a].alt)
                       /\ Escaped(f.attachments[a].label)

---------------------------------------------------------------------------
(* Properties of the attachments.                                          *)

\* The attachments of the k-th message of the sorted list, when a list.
AttachmentsOf(k) ==
    LET a == messages.items[k].attachments
    IN  IF a.k = "list" THEN a.items ELSE <<>>

\* The fragment of the k-th message, for k <= idx.
FragmentOf(k) ==
    out[CHOOSE p \in 1..Len(out) :
            /\ out[p].call = "message"
            /\ Cardinality({q \in 1..p : out[q].call = "message"}) = k].frag

Rendering == pc \in {"render", "done", "raised"} /\ report.at \in {"", "render"}

\* The name the file is looked up under: saved_as, defaulting to filename.
LookupName(att) ==
    IF Truthy(att.saved_as) THEN att.saved_as
    ELSE Get(att.filename, Str(<<"a", "t", "t", "a", "c", "h", "m", "e", "n", "t">>))

FileName(att) ==
    PyStr(Get(att.filename, Str(<<"a", "t", "t", "a", "c", "h", "m", "e", "n", "t">>)))

IsImage(att) == att.content_type.k = "str" /\ At(att.content_type.s, 1, ImagePrefix)

\* The readable files of the store under the attachment's lookup name.
LocalFiles(att) ==
    {f \in attachments_dir.files :
        LookupName(att).k = "str" /\ f.name = LookupName(att).s /\ f.readable}

\* How an image must be rendered according to C6.
ImagePolicy(att, part) ==
    IF LocalFiles(att) # {}
    THEN /\ part.kind = "image"
         /\ \E f \in LocalFiles(att) :
                part.src = DataUri(att.content_type.s, b64encode(f.data))
         /\ part.href = IF Truthy(att.url) THEN PyStr(att.url) ELSE part.src
    ELSE IF Truthy(att.url)
    THEN part.kind = "image" /\ part.src = PyStr(att.url) /\ part.href = PyStr(att.url)
    ELSE part.kind = "image_label" /\ part.label = FileName(att)

\* Whether the message being rendered when main raised is sound apart from
\* its attachments.
SoundButAttachments(msg) ==
    RenderMessage(Msg(msg.author, msg.content, msg.created_at, NoAtts), NoDir).raised = ""

\* C6: an image attachment is always resolved: to the data URI of its local
\* file, linked to the url if there is one; without a readable local file to
\* the url; without a url to a plain file name label.
C6_ImageResolution ==
    Rendering =>
        /\ \A k \in 1..idx : \A a \in 1..Len(AttachmentsOf(k)) :
               IsImage(AttachmentsOf(k)[a])
                   => ImagePolicy(AttachmentsOf(k)[a], FragmentOf(k).attachments[a])
        /\ (pc = "raised" /\ SoundButAttachments(messages.items[idx + 1])) =>
               \E a \in 1..Len(AttachmentsOf(idx + 1)) : ~IsImage(AttachmentsOf(idx + 1)[a])

\* C6 for the attachments whose lookup name is a string.
ImagePolicyWhenNamed ==
    Rendering =>
        /\ \A k \in 1..idx : \A a \in 1..Len(AttachmentsOf(k)) :
               IsImage(AttachmentsOf(k)[a])
                   => ImagePolicy(AttachmentsOf(k)[a], FragmentOf(k).attachments[a])
        /\ (pc = "raised" /\ SoundButAttachments(messages.items[idx + 1])) =>
               \E a \in 1..Len(AttachmentsOf(idx + 1)) :
                   \/ ~IsImage(AttachmentsOf(idx + 1)[a])
                   \/ LookupName(AttachmentsOf(idx + 1)[a]).k # "str"

Lower(c) ==
    CASE c = "V" -> "v" [] c = "I" -> "i" [] c = "D" -> "d" [] c = "E" -> "e"
      [] c = "O" -> "o" [] c = "M" -> "m" [] c = "A" -> "a" [] c = "G" -> "g"
      [] c = "P" -> "p" [] c = "N" -> "n" [] OTHER -> c

\* The first segment of the content type, lower-cased.
Category(att) ==
    LET t == att.content_type.s
        slash == {i \in 1..Len(t) : t[i] = "/"}
        n == IF slash = {} THEN Len(t) ELSE (CHOOSE i \in slash : \A j \in slash : i <= j) - 1
    IN  IF att.content_type.k = "str" THEN [i \in 1..n |-> Lower(t[i])] ELSE <<>>

IsVideo(att) == Category(att) = <<"v", "i", "d", "e", "o">>

\* Whether the attachment has a local file in the store or a url.
HasSource(att) ==
    \/ Truthy(att.url)
    \/ /\ attachments_dir.present /\ LookupName(att).k = "str"
       /\ Exists(attachments_dir, LookupName(att).s)

\* C7 as claimed: a video attachment with a usable source is rendered as an
\* inline video.
C7_VideoInline ==
    Rendering =>
        \A k \in 1..idx : \A a \in 1..Len(AttachmentsOf(k)) :
            (IsVideo(AttachmentsOf(k)[a]) /\ HasSource(AttachmentsOf(k)[a]))
                => FragmentOf(k).attachments[a].kind = "video"

\* C7 as amended: a video attachment is never rendered as an inline video;
\* its rendering is a link to the url labelled with the file name when the
\* url is not empty, and the plain file name otherwise, whether or not the
\* store holds its file.
C7_VideoIsLinkOrLabel ==
    Rendering =>
        \A k \in 1..idx : \A a \in 1..Len(AttachmentsOf(k)) :
            LET att == AttachmentsOf(k)[a]
                part == FragmentOf(k).attachments[a]
            IN  IsVideo(att) =>
                    /\ part.label = FileName(att)
                    /\ IF Truthy(att.url)
                       THEN part.kind = "link" /\ part.href = PyStr(att.url)
                       ELSE part.kind = "label"

C7_Witness ==
    /\ pc = "done"
    /\ idx = 1
    /\ attachments_dir = Dir({FileA})
    /\ AttachmentsOf(1) = <<Att(Str(<<"a">>), Absent, Url, VideoMp4)>>
    /\ FragmentOf(1).attachments[1].kind = "link"

=============================================================================
